---------------------------- MODULE Spec2Model ----------------------------
(***************************************************************************)
(* Kinematics and trajectory engine of the 6-axis arm simulator:           *)
(*   KinematicsService (forward chain, Jacobian-transpose IK),             *)
(*   ParserService (global vars / trajectory text),                        *)
(*   TrajectoryPlayer (per-frame playback) and the App handlers.           *)
(*                                                                         *)
(* Numbers.  The source computes in IEEE doubles; here every quantity is   *)
(* a scaled integer:                                                       *)
(*   angles            tenths of a degree          (10 = 1 degree)         *)
(*   lengths           hundredths of a millimetre  (100 = 1 mm)            *)
(*   rotation entries, quaternion components   thousandths (One = 1.0)     *)
(*   frame time        1/1200 second, so that 120 deg/s * dt is dt itself  *)
(*                     in tenths of a degree                               *)
(* Sines and cosines are tabulated every GridStep (15 degrees); the        *)
(* kinematic operators are therefore defined on joint angles that are      *)
(* multiples of GridStep, and the IK update is rounded to that grid.       *)
(***************************************************************************)
EXTENDS Integers, Sequences, FiniteSets, TLC

One == 10 * 10 * 10            \* 1.0 as a rotation entry or quaternion component
Deg(x) == x * 10               \* degrees
Mm(x) == x * 100               \* millimetres
GridStep == Deg(15)
FullTurn == Deg(360)
HalfTurn == Deg(180)

Abs(x) == IF x < 0 THEN -x ELSE x
Sign(x) == IF x > 0 THEN 1 ELSE IF x < 0 THEN -1 ELSE 0
Min(x, y) == IF x < y THEN x ELSE y

\* x / y rounded to the nearest integer (y > 0), halves away from zero
RoundDiv(x, y) == IF x >= 0 THEN (2 * x + y) \div (2 * y) ELSE -((2 * (-x) + y) \div (2 * y))

\* floor of the square root, by bisection on [lo, hi]
RECURSIVE SqrtSearch(_, _, _)
SqrtSearch(n, lo, hi) ==
    IF lo >= hi THEN lo
    ELSE LET mid == (lo + hi + 1) \div 2
         IN IF mid * mid <= n THEN SqrtSearch(n, mid, hi) ELSE SqrtSearch(n, lo, mid - 1)

\* Math.sqrt on a value scaled by One: Sqrt(x)/One = sqrt(x/One)
Sqrt(x) == IF x <= 0 THEN 0 ELSE SqrtSearch(x * One, 0, 4 * One)

\* JavaScript's remainder: the result has the sign of the dividend
\* a remainder that leaves its operand whole
Unreduced(a, m) == a

JsRem(a, m) == IF a >= 0 THEN a % m ELSE -((-a) % m)

(***************************************************************************)
(* Math.sin / Math.cos of getRad(deg), on the 15 degree grid.              *)
(***************************************************************************)
SinTable == <<0, 259, 500, 707, 866, 966, 1000>>

SinQ(k) ==   \* k in 0..23 : sine of k * 15 degrees
    IF k <= 6 THEN SinTable[k + 1]
    ELSE IF k <= 12 THEN SinTable[13 - k]
    ELSE IF k <= 18 THEN -SinTable[k - 11]
    ELSE -SinTable[25 - k]

OnGrid(a) == a % GridStep = 0

Sin(a) == CASE OnGrid(a) -> SinQ((a % FullTurn) \div GridStep)
Cos(a) == Sin(a + FullTurn \div 4)

(***************************************************************************)
(* three.js Vector3 / Matrix4 restricted to rigid transforms: a matrix is  *)
(* [r |-> 3x3 rotation (scaled by One), p |-> translation column].         *)
(***************************************************************************)
Dot(u, v) == u[1] * v[1] + u[2] * v[2] + u[3] * v[3]
Cross(u, v) == <<u[2] * v[3] - u[3] * v[2], u[3] * v[1] - u[1] * v[3], u[1] * v[2] - u[2] * v[1]>>
VSub(u, v) == <<u[1] - v[1], u[2] - v[2], u[3] - v[3]>>
Col(r, j) == <<r[1][j], r[2][j], r[3][j]>>

Identity == [r |-> <<<<One, 0, 0>>, <<0, One, 0>>, <<0, 0, One>>>>, p |-> <<0, 0, 0>>]

makeTranslation(x, y, z) == [r |-> Identity.r, p |-> <<x, y, z>>]
makeRotationX(a) ==
    [r |-> <<<<One, 0, 0>>, <<0, Cos(a), -Sin(a)>>, <<0, Sin(a), Cos(a)>>>>, p |-> <<0, 0, 0>>]
makeRotationY(a) ==
    [r |-> <<<<Cos(a), 0, Sin(a)>>, <<0, One, 0>>, <<-Sin(a), 0, Cos(a)>>>>, p |-> <<0, 0, 0>>]
makeRotationZ(a) ==
    [r |-> <<<<Cos(a), -Sin(a), 0>>, <<Sin(a), Cos(a), 0>>, <<0, 0, One>>>>, p |-> <<0, 0, 0>>]

\* Matrix4.multiply: m * n
MulRow(row, n) ==
    <<RoundDiv(Dot(row, Col(n.r, 1)), One), RoundDiv(Dot(row, Col(n.r, 2)), One),
      RoundDiv(Dot(row, Col(n.r, 3)), One)>>

Multiply(m, n) ==
    [r |-> <<MulRow(m.r[1], n), MulRow(m.r[2], n), MulRow(m.r[3], n)>>,
     p |-> <<RoundDiv(Dot(m.r[1], n.p), One) + m.p[1], RoundDiv(Dot(m.r[2], n.p), One) + m.p[2],
             RoundDiv(Dot(m.r[3], n.p), One) + m.p[3]>>]

\* the negated-translation shortcut: the rotation kept, the position negated
InvertNegatedTranslation(m) == [r |-> m.r, p |-> <<-m.p[1], -m.p[2], -m.p[3]>>]

\* Matrix4.invert of a rigid transform: [R^T | -R^T p]
Invert(m) ==
    LET rt == <<Col(m.r, 1), Col(m.r, 2), Col(m.r, 3)>>
    IN [r |-> rt,
        p |-> <<-RoundDiv(Dot(rt[1], m.p), One), -RoundDiv(Dot(rt[2], m.p), One),
                -RoundDiv(Dot(rt[3], m.p), One)>>]

\* Vector3.setFromMatrixPosition
setFromMatrixPosition(m) == m.p

(***************************************************************************)
(* DH parameter set: four parallel 7-element sequences.                    *)
(***************************************************************************)
DefaultDH ==
    [d       |-> <<Mm(0), Mm(563), Mm(-180), Mm(180), Mm(160), Mm(0), Mm(0)>>,
     a       |-> <<Mm(0), Mm(220), Mm(900), Mm(0), Mm(1013) + 50, Mm(200), Mm(0)>>,
     alpha   |-> <<0, 0, 0, 0, 0, 0, 0>>,
     offsets |-> <<Deg(-90), 0, Deg(90), 0, 0, Deg(45), 0>>]

\* getDHConfig / setDHConfig copy the four arrays
getDHConfig(svc) == [d |-> svc.d, a |-> svc.a, alpha |-> svc.alpha, offsets |-> svc.offsets]
setDHConfig(config) == [d |-> config.d, a |-> config.a, alpha |-> config.alpha, offsets |-> config.offsets]

makeRotation(axis, a) ==
    CASE axis = "x" -> makeRotationX(a)
      [] axis = "y" -> makeRotationY(a)
      [] axis = "z" -> makeRotationZ(a)

applyTransforms(mat, trans, angleDeg, axis) ==
    Multiply(Multiply(mat, makeTranslation(trans[1], trans[2], trans[3])), makeRotation(axis, angleDeg))

\* one DH stage i (0..6) applied to the running transform
Link(svc, prev, i, jVar, axis) ==
    applyTransforms(
        applyTransforms(prev, <<0, 0, svc.d[i + 1]>>, jVar + svc.offsets[i + 1], axis),
        <<svc.a[i + 1], 0, 0>>, svc.alpha[i + 1], "x")

ToolZ == Mm(386) + 63
ToolX == Mm(-124)

\* The frames are built in order; each stage receives the frames recorded so
\* far (matrices) and pushes its own.
Link0(svc, jVars) == <<Link(svc, Identity, 0, jVars[1], "z")>>
Link1(svc, jVars, matrices) == Append(matrices, Link(svc, matrices[1], 1, jVars[2], "z"))
\* m1_adj = m1 * Rx(90)
Link2(svc, jVars, matrices) ==
    Append(matrices, Link(svc, Multiply(matrices[2], makeRotationX(Deg(90))), 2, jVars[3], "z"))
Link3(svc, jVars, matrices) == Append(matrices, Link(svc, matrices[3], 3, jVars[4], "z"))
\* m3_adj = m3 * Ry(90) * Rz(-90); this joint rotates around local X
Link4(svc, jVars, matrices) ==
    Append(matrices,
           Link(svc, Multiply(Multiply(matrices[4], makeRotationY(Deg(90))), makeRotationZ(Deg(-90))),
                4, jVars[5], "x"))
\* m4_adj = m4 * Rx(-90)
Link5(svc, jVars, matrices) ==
    Append(matrices, Link(svc, Multiply(matrices[5], makeRotationX(Deg(-90))), 5, jVars[6], "z"))
\* m5_adj = m5 * Rx(-90) * Ry(90)
Link6(svc, jVars, matrices) ==
    Append(matrices,
           Link(svc, Multiply(Multiply(matrices[6], makeRotationX(Deg(-90))), makeRotationY(Deg(90))),
                6, jVars[7], "z"))
\* the tool frame computed but never pushed
ToolNotPushed(matrices) == matrices

\* mTool = m6 * T(0, 0, 386.63) * T(-124, 0, 0)
Tool(matrices) ==
    Append(matrices,
           Multiply(Multiply(matrices[7], makeTranslation(0, 0, ToolZ)), makeTranslation(ToolX, 0, 0)))

ChainOf(svc, jVars) ==
    Tool(Link6(svc, jVars, Link5(svc, jVars, Link4(svc, jVars, Link3(svc, jVars,
         Link2(svc, jVars, Link1(svc, jVars, Link0(svc, jVars))))))))

forwardKinematicsChain(svc, jointAnglesDeg) == ChainOf(svc, <<0>> \o jointAnglesDeg)

(***************************************************************************)
(* three.js Quaternion, components scaled by One: [x, y, z, w].            *)
(***************************************************************************)
setFromRotationMatrix(r) ==
    LET m11 == r[1][1]  m12 == r[1][2]  m13 == r[1][3]
        m21 == r[2][1]  m22 == r[2][2]  m23 == r[2][3]
        m31 == r[3][1]  m32 == r[3][2]  m33 == r[3][3]
        trace == m11 + m22 + m33
    IN IF trace > 0 THEN
            LET root == Sqrt(trace + One)
            IN [x |-> RoundDiv((m32 - m23) * One, 2 * root),
                y |-> RoundDiv((m13 - m31) * One, 2 * root),
                z |-> RoundDiv((m21 - m12) * One, 2 * root),
                w |-> RoundDiv(root, 2)]
       ELSE IF m11 > m22 /\ m11 > m33 THEN
            LET root == Sqrt(One + m11 - m22 - m33)
            IN [x |-> RoundDiv(root, 2),
                y |-> RoundDiv((m12 + m21) * One, 2 * root),
                z |-> RoundDiv((m13 + m31) * One, 2 * root),
                w |-> RoundDiv((m32 - m23) * One, 2 * root)]
       ELSE IF m22 > m33 THEN
            LET root == Sqrt(One + m22 - m11 - m33)
            IN [x |-> RoundDiv((m12 + m21) * One, 2 * root),
                y |-> RoundDiv(root, 2),
                z |-> RoundDiv((m23 + m32) * One, 2 * root),
                w |-> RoundDiv((m13 - m31) * One, 2 * root)]
       ELSE
            LET root == Sqrt(One + m33 - m11 - m22)
            IN [x |-> RoundDiv((m13 + m31) * One, 2 * root),
                y |-> RoundDiv((m23 + m32) * One, 2 * root),
                z |-> RoundDiv(root, 2),
                w |-> RoundDiv((m21 - m12) * One, 2 * root)]

\* the quaternion left as it is (no .invert())
QKept(q) == q

\* Quaternion.invert: the conjugate
QInvert(q) == [x |-> -q.x, y |-> -q.y, z |-> -q.z, w |-> q.w]

\* Quaternion.multiply: a * b
QMultiply(a, b) ==
    [x |-> RoundDiv(a.x * b.w + a.w * b.x + a.y * b.z - a.z * b.y, One),
     y |-> RoundDiv(a.y * b.w + a.w * b.y + a.z * b.x - a.x * b.z, One),
     z |-> RoundDiv(a.z * b.w + a.w * b.z + a.x * b.y - a.y * b.x, One),
     w |-> RoundDiv(a.w * b.w - a.x * b.x - a.y * b.y - a.z * b.z, One)]

\* Vector3.applyQuaternion followed by normalize, for a unit axis v (scaled by One)
applyQuaternion(v, q) ==
    LET tx == RoundDiv(2 * (q.y * v[3] - q.z * v[2]), One)
        ty == RoundDiv(2 * (q.z * v[1] - q.x * v[3]), One)
        tz == RoundDiv(2 * (q.x * v[2] - q.y * v[1]), One)
    IN <<v[1] + RoundDiv(q.w * tx + q.y * tz - q.z * ty, One),
         v[2] + RoundDiv(q.w * ty + q.z * tx - q.x * tz, One),
         v[3] + RoundDiv(q.w * tz + q.x * ty - q.y * tx, One)>>

\* Matrix4.decompose of a rigid transform (unit scale)
decompose(m) == [pos |-> m.p, quat |-> setFromRotationMatrix(m.r)]

\* Vector3.length() < t, without forming squares of large components
LengthLess(v, t) ==
    /\ Abs(v[1]) < t /\ Abs(v[2]) < t /\ Abs(v[3]) < t
    /\ Dot(v, v) < t * t

(***************************************************************************)
(* KinematicsService.inverseKinematics: Jacobian-transpose descent.        *)
(***************************************************************************)
maxIterations == 200
posThreshold == Mm(1) \div 10      \* 0.1 mm
rotThreshold == One \div 1000      \* 0.001 rad
rotWeight == 100
InvLearningRate == 2               \* learningRate = 0.5
InvGain == 20000                   \* 0.00005

Last(seq) == seq[Len(seq)]

getEndEffectorPose(svc, jointAnglesDeg) == Last(forwardKinematicsChain(svc, jointAnglesDeg))

\* Vector3.normalize of an axis scaled by One
Scaled(v, len) == <<RoundDiv(v[1] * One, len), RoundDiv(v[2] * One, len), RoundDiv(v[3] * One, len)>>
normalize(v) == Scaled(v, SqrtSearch(Dot(v, v), 0, 2 * One))

\* errRot: the vector part of errQuat, negated if w < 0, doubled
ErrRot(errQuat) ==
    IF errQuat.w < 0 THEN <<-2 * errQuat.x, -2 * errQuat.y, -2 * errQuat.z>>
    ELSE <<2 * errQuat.x, 2 * errQuat.y, 2 * errQuat.z>>

\* steps 1 and 2 of one iteration: forward kinematics and the 6x1 error
ErrorFrom(tgt, chain, cur) ==
    [chain      |-> chain,
     currentPos |-> cur.pos,
     errPos     |-> VSub(tgt.pos, cur.pos),
     errRot     |-> ErrRot(QMultiply(tgt.quat, QInvert(cur.quat)))]

ErrorOf(tgt, chain) == ErrorFrom(tgt, chain, decompose(Last(chain)))

IKError(svc, targetMatrix, angles) ==
    ErrorOf(decompose(targetMatrix), forwardKinematicsChain(svc, angles))

Converged(e) == LengthLess(e.errPos, posThreshold) /\ LengthLess(e.errRot, rotThreshold)

\* the axis of joint j (0..5) in the base frame: local Z of chain[j], local X for j = 3
LocalAxis(j) == IF j = 3 THEN <<One, 0, 0>> ELSE <<0, 0, One>>
JointAxis(chain, j) == normalize(applyQuaternion(LocalAxis(j), setFromRotationMatrix(chain[j + 1].r)))

ToMm(v) == <<RoundDiv(v[1], One * Mm(1)), RoundDiv(v[2], One * Mm(1)), RoundDiv(v[3], One * Mm(1))>>
ToDmm(v) == <<RoundDiv(v[1], 10), RoundDiv(v[2], 10), RoundDiv(v[3], 10)>>

\* J_v . errPos + J_w . errRot * 100, in tenths of a square millimetre
ContributionOf(e, jointAxis, p_e) ==
    Dot(ToMm(Cross(jointAxis, p_e)), ToDmm(e.errPos))
    + RoundDiv(rotWeight * Dot(jointAxis, e.errRot), (One * One) \div 10)

Contribution(e, j) ==
    ContributionOf(e, JointAxis(e.chain, j), VSub(e.currentPos, setFromMatrixPosition(e.chain[j + 1])))

\* newAngles[j] += contribution * learningRate * 0.00005, rounded to the angle grid
Updated(e, angles, j) ==
    angles[j + 1] + GridStep * RoundDiv(Contribution(e, j), InvLearningRate * InvGain * GridStep)

JacobianStep(e, angles) ==
    <<Updated(e, angles, 0), Updated(e, angles, 1), Updated(e, angles, 2),
      Updated(e, angles, 3), Updated(e, angles, 4), Updated(e, angles, 5)>>

\* Normalize angles (the closing map of inverseKinematics)
WrapHigh(angle) == IF angle > HalfTurn THEN angle - FullTurn ELSE angle
WrapLow(angle) == IF angle < -HalfTurn THEN angle + FullTurn ELSE angle
NormalizeAngle(a) == WrapLow(WrapHigh(JsRem(a, FullTurn)))

Normalize(angles) ==
    <<NormalizeAngle(angles[1]), NormalizeAngle(angles[2]), NormalizeAngle(angles[3]),
      NormalizeAngle(angles[4]), NormalizeAngle(angles[5]), NormalizeAngle(angles[6])>>

\* one pass of the for-loop body: [converged, next]
IterationOf(e, newAngles) ==
    IF Converged(e) THEN [converged |-> TRUE, next |-> newAngles]
    ELSE [converged |-> FALSE, next |-> JacobianStep(e, newAngles)]

IKIteration(svc, targetMatrix, newAngles) ==
    IterationOf(IKError(svc, targetMatrix, newAngles), newAngles)

\* the loop condition written iter <= maxIterations
LoopContinuesInclusive(iter) == iter <= maxIterations

\* the loop condition iter < maxIterations
LoopContinues(iter) == iter < maxIterations

\* for (iter = 0; iter < maxIterations; iter++) { ... break on convergence ... }
\* The loop state is newAngles, the vectors newAngles has held (visited) and
\* whether the loop is over (done).  The body is a function of newAngles
\* alone: once a pass produces a vector already in visited (at index k), the
\* later passes repeat visited[k ..] with period Len(visited) + 1 - k, none of
\* them converging, and the loop ends at the cap on the vector that the cycle
\* holds at pass maxIterations.  Recurring reads that vector off instead of
\* re-running the passes.
Recurring(visited, k) == visited[k + ((maxIterations - (k - 1)) % (Len(visited) + 1 - k))]

FirstIndex(visited, a) == CHOOSE k \in 1..Len(visited) : visited[k] = a

IKPass(st, it) ==
    IF it.converged THEN [st EXCEPT !.done = TRUE]
    ELSE IF \E k \in 1..Len(st.visited) : st.visited[k] = it.next
         THEN [st EXCEPT !.newAngles = Recurring(st.visited, FirstIndex(st.visited, it.next)), !.done = TRUE]
    ELSE [newAngles |-> it.next, visited |-> Append(st.visited, it.next), done |-> FALSE]

\* passes lo .. hi of the loop: the lower half of them, then the upper half
RECURSIVE Passes(_, _, _, _, _)
Passes(svc, targetMatrix, lo, hi, st) ==
    IF st.done \/ lo > hi THEN st
    ELSE IF lo = hi THEN IKPass(st, IKIteration(svc, targetMatrix, st.newAngles))
    ELSE CHOOSE end \in { Passes(svc, targetMatrix, (lo + hi) \div 2 + 1, hi, half) :
                            half \in { Passes(svc, targetMatrix, lo, (lo + hi) \div 2, st) } } : TRUE

IKLoop(svc, targetMatrix, seed) ==
    Passes(svc, targetMatrix, 0, maxIterations - 1,
           [newAngles |-> seed, visited |-> <<seed>>, done |-> FALSE]).newAngles

inverseKinematics(svc, targetMatrix, currentAnglesDeg) ==
    Normalize(IKLoop(svc, targetMatrix, currentAnglesDeg))

(***************************************************************************)
(* poseToMatrix / calculateFlangeTarget.  A PoseData field is a JavaScript  *)
(* number: [kind |-> "number", v |-> hundredths] or [kind |-> "NaN"].       *)
(***************************************************************************)
Num(v) == [kind |-> "number", v |-> v]
NaN == [kind |-> "NaN", v |-> 0]
Null == [kind |-> "null", v |-> 0]

PoseOf(x, y, z, a, b, c) == [x |-> x, y |-> y, z |-> z, a |-> a, b |-> b, c |-> c]
ZeroPose == PoseOf(Num(0), Num(0), Num(0), Num(0), Num(0), Num(0))

\* a pose angle (degrees, in hundredths) as an angle of the model (tenths)
PoseAngle(n) == n.v \div 10

\* T(x, y, z) * Rz(a) * Ry(b) * Rx(c)
poseToMatrix(pose) ==
    Multiply(makeTranslation(pose.x.v, pose.y.v, pose.z.v),
             Multiply(Multiply(makeRotationZ(PoseAngle(pose.a)), makeRotationY(PoseAngle(pose.b))),
                      makeRotationX(PoseAngle(pose.c))))

\* matFlange = matWorld * matPoint * matTool^-1
FlangeOf(matFlange) == [position |-> setFromMatrixPosition(matFlange), matrix |-> matFlange]

calculateFlangeTarget(point, worldOffset, toolOffset) ==
    FlangeOf(Multiply(Multiply(poseToMatrix(worldOffset), poseToMatrix(point)),
                      Invert(poseToMatrix(toolOffset))))

(***************************************************************************)
(* ParserService.  Texts and lines are strings.                            *)
(***************************************************************************)
Chr(s, i) == SubSeq(s, i, i)

Digits == {"0", "1", "2", "3", "4", "5", "6", "7", "8", "9"}
DigitValue(c) ==
    CASE c = "0" -> 0 [] c = "1" -> 1 [] c = "2" -> 2 [] c = "3" -> 3 [] c = "4" -> 4
      [] c = "5" -> 5 [] c = "6" -> 6 [] c = "7" -> 7 [] c = "8" -> 8 [] c = "9" -> 9

\* character classes: \s and [-\d.] of the key pattern, \d, the blanks that
\* trim removes, and the characters of a line
InClass(c, class) ==
    CASE class = "space" -> c \in {" ", "\t", "\r"}
      [] class = "value" -> c \in Digits \cup {"-", "."}
      [] class = "digit" -> c \in Digits
      [] class = "blank" -> c \in {" ", "\t", "\r", "\n"}
      [] class = "line"  -> c # "\n"

\* String.prototype.includes / startsWith
StartsAt(s, i, lit) == i + Len(lit) - 1 <= Len(s) /\ SubSeq(s, i, i + Len(lit) - 1) = lit
Includes(s, lit) == \E i \in 1..(Len(s) + 1) : StartsAt(s, i, lit)
startsWith(s, lit) == StartsAt(s, 1, lit)

\* the first index >= i of s whose character is outside the class (Len(s) + 1 if none)
RunEnd(s, i, class) ==
    IF \E k \in i..Len(s) : ~InClass(Chr(s, k), class)
    THEN CHOOSE k \in i..Len(s) : ~InClass(Chr(s, k), class) /\ \A m \in i..(k - 1) : InClass(Chr(s, m), class)
    ELSE Len(s) + 1

\* String.prototype.trim
TrimEnd(s) ==
    IF \E k \in 1..Len(s) : ~InClass(Chr(s, k), "blank")
    THEN SubSeq(s, 1, CHOOSE k \in 1..Len(s) :
                          ~InClass(Chr(s, k), "blank") /\ \A m \in (k + 1)..Len(s) : InClass(Chr(s, m), "blank"))
    ELSE ""
trim(s) == TrimEnd(SubSeq(s, RunEnd(s, 1, "blank"), Len(s)))

\* text.split('\n')
RECURSIVE SplitFrom(_, _)
SplitFrom(text, i) ==
    IF RunEnd(text, i, "line") > Len(text) THEN <<SubSeq(text, i, Len(text))>>
    ELSE <<SubSeq(text, i, RunEnd(text, i, "line") - 1)>>
         \o SplitFrom(text, RunEnd(text, i, "line") + 1)
split(text) == SplitFrom(text, 1)

\* parseFloat of a string of value characters: an optional '-', digits, an
\* optional '.' and digits; NaN when there is no digit.  The value is kept
\* in hundredths (digits after the second decimal are dropped).
RECURSIVE DigitsValue(_, _, _)
DigitsValue(s, i, e) == IF i >= e THEN 0 ELSE DigitsValue(s, i, e - 1) * 10 + DigitValue(Chr(s, e - 1))

Hundredths(s, i, e) ==
    (IF i < e THEN 10 * DigitValue(Chr(s, i)) ELSE 0) + (IF i + 1 < e THEN DigitValue(Chr(s, i + 1)) ELSE 0)

FloatFrom(s, neg, i, intEnd, fracEnd) ==
    IF intEnd = i /\ fracEnd <= intEnd + 1 THEN NaN
    ELSE Num((IF neg THEN -1 ELSE 1) * (100 * DigitsValue(s, i, intEnd) + Hundredths(s, intEnd + 1, fracEnd)))

FloatAt(s, neg, i, intEnd) ==
    FloatFrom(s, neg, i, intEnd,
              IF intEnd <= Len(s) /\ Chr(s, intEnd) = "." THEN RunEnd(s, intEnd + 1, "digit") ELSE intEnd)

FloatSigned(s, neg, i) == FloatAt(s, neg, i, RunEnd(s, i, "digit"))

parseFloat(s) == IF startsWith(s, "-") THEN FloatSigned(s, TRUE, 2) ELSE FloatSigned(s, FALSE, 1)

\* new RegExp(`${key}\\s*:=\\s*([-\\d.]+)`, 'i') matched at index p of line:
\* <<capture>> or <<>>
Upper(key) ==
    CASE key = "x" -> "X" [] key = "y" -> "Y" [] key = "z" -> "Z"
      [] key = "a" -> "A" [] key = "b" -> "B" [] key = "c" -> "C"

CaptureAt(line, r) == IF RunEnd(line, r, "value") > r THEN <<SubSeq(line, r, RunEnd(line, r, "value") - 1)>> ELSE <<>>

AssignAt(line, q) == IF StartsAt(line, q, ":=") THEN CaptureAt(line, RunEnd(line, q + 2, "space")) ELSE <<>>

MatchAt(line, key, p) ==
    IF Chr(line, p) \in {key, Upper(key)} THEN AssignAt(line, RunEnd(line, p + 1, "space")) ELSE <<>>

\* line.match(regex): the leftmost match
Matches(line, key) == { p \in 1..Len(line) : MatchAt(line, key, p) # <<>> }
FirstMatch(line, key) == CHOOSE p \in Matches(line, key) : \A q \in Matches(line, key) : p <= q

parseKeyValue(line, key) ==
    IF Matches(line, key) = {} THEN Null ELSE parseFloat(MatchAt(line, key, FirstMatch(line, key))[1])

\* the parsed value handed on as it is, null included
OrNull(value) == value

\* value ?? 0
OrZero(value) == IF value.kind = "null" THEN Num(0) ELSE value

parseLineToPose(line) ==
    PoseOf(OrZero(parseKeyValue(line, "x")), OrZero(parseKeyValue(line, "y")),
           OrZero(parseKeyValue(line, "z")), OrZero(parseKeyValue(line, "a")),
           OrZero(parseKeyValue(line, "b")), OrZero(parseKeyValue(line, "c")))

ZeroConfig == [world |-> ZeroPose, tool |-> ZeroPose]

\* the body of parseGlobalVars' forEach, for one line
GlobalLine(config, line) ==
    IF startsWith(trim(line), "world1") THEN [config EXCEPT !.world = parseLineToPose(line)]
    ELSE IF startsWith(trim(line), "tool1") THEN [config EXCEPT !.tool = parseLineToPose(line)]
    ELSE config

GlobalLines(lines) ==
    LET config[n \in 0..Len(lines)] == IF n = 0 THEN ZeroConfig ELSE GlobalLine(config[n - 1], lines[n])
    IN config[Len(lines)]

parseGlobalVars(text) == GlobalLines(split(text))

\* the test reduced to line.includes('CARTPOS')
TrajectoryLineAnyCartpos(points, line) ==
    IF Includes(line, "CARTPOS") THEN Append(points, parseLineToPose(line)) ELSE points

\* the body of parseTrajectory's forEach, for one line
TrajectoryLine(points, line) ==
    IF Includes(line, "CARTPOS") /\ Includes(line, "x :=") THEN Append(points, parseLineToPose(line))
    ELSE points

TrajectoryLines(lines) ==
    LET points[n \in 0..Len(lines)] == IF n = 0 THEN <<>> ELSE TrajectoryLine(points[n - 1], lines[n])
    IN points[Len(lines)]

parseTrajectory(text) == TrajectoryLines(split(text))

(***************************************************************************)
(* TrajectoryPlayer: one useFrame callback.                                *)
(***************************************************************************)
FrameUnit == 120 * 10              \* frame times are counted in 1/1200 s
Band == Deg(1) \div 10             \* 0.1 degree

\* a rate of 60 degrees a second in place of 120
speedSlow(delta) == (60 * Deg(1) * delta) \div FrameUnit

\* speed = 120.0 * delta, in tenths of a degree per frame
speed(delta) == (120 * Deg(1) * delta) \div FrameUnit

\* the step without Math.min: a full speed step whatever the distance
NextAngleUnclamped(curr, target, delta) ==
    IF Abs(target - curr) > Band THEN curr + Sign(target - curr) * speed(delta) ELSE target

\* the map callback for one joint
NextAngle(curr, target, delta) ==
    IF Abs(target - curr) > Band
    THEN curr + Sign(target - curr) * Min(Abs(target - curr), speed(delta))
    ELSE target

nextAngles(currentAngles, target, delta) ==
    <<NextAngle(currentAngles[1], target[1], delta), NextAngle(currentAngles[2], target[2], delta),
      NextAngle(currentAngles[3], target[3], delta), NextAngle(currentAngles[4], target[4], delta),
      NextAngle(currentAngles[5], target[5], delta), NextAngle(currentAngles[6], target[6], delta)>>

\* `reached` after the map: no joint differed from the target by more than the band
reached(currentAngles, target) == \A i \in 1..6 : ~(Abs(target[i] - currentAngles[i]) > Band)

\* if (reached) queue.shift()
\* queue.pop() in place of queue.shift(): the entry at the back removed
ShiftedFromBack(queue, currentAngles) ==
    IF reached(currentAngles, queue[1]) THEN SubSeq(queue, 1, Len(queue) - 1) ELSE queue

Shifted(queue, currentAngles) == IF reached(currentAngles, queue[1]) THEN Tail(queue) ELSE queue

\* if (queue.length === 0) onFinished(), inside if (reached)
\* onFinished() called on every pop, without the test of the length
FinishedOnEveryPop(queue, currentAngles) == reached(currentAngles, queue[1])

Finished(queue, currentAngles) == reached(currentAngles, queue[1]) /\ Tail(queue) = <<>>

(***************************************************************************)
(* App: the handlers' computations.                                        *)
(***************************************************************************)
steps == 60

\* Math.sin / Math.cos of an angle in thousandths of a radian (the path
\* generators' parameters are radians): a series on the folded angle
Pi == 3142
WrapTurn(y) == IF y > Pi THEN y - 2 * Pi ELSE y
FoldQuarter(y) == IF y > Pi \div 2 THEN Pi - y ELSE IF y < -(Pi \div 2) THEN -Pi - y ELSE y
Cube(y, y2) == RoundDiv(y * y2, 6 * One)
Fifth(y, y2) == RoundDiv(Cube(y, y2) * y2, 20 * One)
Seventh(y, y2) == RoundDiv(Fifth(y, y2) * y2, 42 * One)
Series(y, y2) == y - Cube(y, y2) + Fifth(y, y2) - Seventh(y, y2)
SinRad(x) == Series(FoldQuarter(WrapTurn(x % (2 * Pi))), RoundDiv(FoldQuarter(WrapTurn(x % (2 * Pi))) * FoldQuarter(WrapTurn(x % (2 * Pi))), One))
CosRad(x) == SinRad(x + Pi \div 2)

\* new Matrix4().compose(pos, quat, (1,1,1)), quat being the rotation of pose.
\* The source carries the rotation through Euler angles and a quaternion
\* (decompose, setFromQuaternion, setFromEuler, compose); the round trip
\* returns the rotation it was given up to rounding, and the model keeps
\* the rotation matrix.
compose(pos, pose) == [r |-> pose.r, p |-> pos]

\* the waypoints of generateTrajectoryPoints, i = 0 .. n
LinePoint(startPos, i) == <<startPos[1] + RoundDiv(Mm(500) * i, steps), startPos[2], startPos[3]>>
SCurvePoint(startPos, i) ==
    <<startPos[1] + RoundDiv(SinRad(50 * i) * Mm(200), One), startPos[2] + Mm(10) * i, startPos[3]>>
SpiralPoint(i) ==
    <<Mm(1200) + RoundDiv(CosRad(100 * i) * Mm(200 + 2 * i), One),
      RoundDiv(SinRad(100 * i) * Mm(200 + 2 * i), One),
      Mm(800) + Mm(5) * i>>

PathTypes == {"line", "s-curve", "spiral"}

PathLength(type) ==
    CASE type = "line" -> steps + 1 [] type = "s-curve" -> steps * 2 + 1 [] type = "spiral" -> steps * 3 + 1

PathPoints(type, startPos) ==
    CASE type = "line"    -> [n \in 1..PathLength(type) |-> LinePoint(startPos, n - 1)]
      [] type = "s-curve" -> [n \in 1..PathLength(type) |-> SCurvePoint(startPos, n - 1)]
      [] type = "spiral"  -> [n \in 1..PathLength(type) |-> SpiralPoint(n - 1)]

\* currentSeed: the caller's joint angles, then the solution pushed last
currentSeed(solutions, seed) == IF solutions = <<>> THEN seed ELSE Last(solutions)

\* addPt: solve from currentSeed, push the solution
addPt(svc, solutions, seed, mat) == Append(solutions, inverseKinematics(svc, mat, currentSeed(solutions, seed)))

\* A loop that calls addPt on mats[lo], ..., mats[hi] in turn, entered with
\* `solutions` already pushed.  The loop over lo..hi is the loop over its
\* lower half followed by the loop over its upper half.
RECURSIVE Loop(_, _, _, _, _, _)
Loop(svc, seed, mats, lo, hi, solutions) ==
    IF lo > hi THEN solutions
    ELSE IF lo = hi THEN addPt(svc, solutions, seed, mats[lo])
    ELSE CHOOSE all \in { Loop(svc, seed, mats, (lo + hi) \div 2 + 1, hi, lower) :
                            lower \in { Loop(svc, seed, mats, lo, (lo + hi) \div 2, solutions) } } : TRUE

\* the generators' loop: one addPt per waypoint, all with startQuat
PathSolutions(svc, seed, startPose, points) ==
    Loop(svc, seed, [n \in 1..Len(points) |-> compose(points[n], startPose)], 1, Len(points), <<>>)

\* the loop of processFiles over the parsed points
FlangeTargets(points, config) ==
    [n \in 1..Len(points) |-> calculateFlangeTarget(points[n], config.world, config.tool)]

ImportSolutions(svc, seed, targets) ==
    Loop(svc, seed, [n \in 1..Len(targets) |-> targets[n].matrix], 1, Len(targets), <<>>)

BaseTargets(targets) == [n \in 1..Len(targets) |-> targets[n].position]

\* a state setter that pushes onto the array it holds
appendToQueue(queue, value) == queue \o value

\* setAngleQueue(value): React's state setter replaces the array
setAngleQueue(queue, value) == value

\* updateDH: a copy of dhParams with one entry replaced
updateDH(config, arrayName, index, num) ==
    CASE arrayName = "d"       -> [config EXCEPT !.d[index] = num]
      [] arrayName = "a"       -> [config EXCEPT !.a[index] = num]
      [] arrayName = "alpha"   -> [config EXCEPT !.alpha[index] = num]
      [] arrayName = "offsets" -> [config EXCEPT !.offsets[index] = num]

\* handleSliderChange: a copy of jointAngles with one entry replaced
handleSliderChange(angles, index, value) == [angles EXCEPT ![index] = value]

(***************************************************************************)
(* State.                                                                  *)
(*   jointAngles, angleQueue, dhParams, globalConfig, importedTrajectory   *)
(*        App's React state (globalConfig: <<>> for null, else <<config>>) *)
(*   svc  the kinematics singleton's DH arrays                             *)
(*   endEffectorPose   the pose App computed in its last render            *)
(*   matrices          RobotModel's memoized chain                         *)
(*   reads   the handleFilesLoaded calls whose files are still loading:    *)
(*           their closure variables and the state they captured           *)
(*   frame   what the last useFrame callback did, and the count of         *)
(*           callbacks that found a queue                                  *)
(*   last    the handler that ran last, the queue it found, the number of  *)
(*           solutions it computed                                         *)
(*   events, solves    user events and IK solves so far                    *)
(*   ik      one call of inverseKinematics in progress: its inputs, the    *)
(*           loop variables newAngles and iter, and the returned vector    *)
(*   parse   one text handed to ParserService and what came back           *)
(***************************************************************************)
VARIABLES jointAngles, angleQueue, dhParams, globalConfig, importedTrajectory, svc,
          endEffectorPose, matrices, reads, frame, last, events, solves, ik, parse, flange

playerVars == <<jointAngles, angleQueue, frame>>
appVars == <<dhParams, globalConfig, importedTrajectory, svc, endEffectorPose, matrices, reads,
             last, events, solves>>
vars == <<jointAngles, angleQueue, dhParams, globalConfig, importedTrajectory, svc,
          endEffectorPose, matrices, reads, frame, last, events, solves, ik, parse, flange>>

Zero6 == <<0, 0, 0, 0, 0, 0>>

IdleFrame(angles, queue) ==
    [n |-> 0, ran |-> FALSE, delta |-> 0, before |-> angles, target |-> <<>>, reached |-> FALSE,
     finished |-> FALSE, calls |-> 0, steady |-> TRUE, start |-> [angles |-> angles, queue |-> queue]]

IdleIK == [pc |-> "idle"]
IdleParse == [pc |-> "idle"]
IdleFlange == [pc |-> "idle"]

\* App as mounted: useState initial values, the first render and its effect
AppMounted ==
    /\ dhParams = getDHConfig(DefaultDH)
    /\ svc = setDHConfig(getDHConfig(DefaultDH))
    /\ globalConfig = <<>>
    /\ importedTrajectory = <<>>
    /\ endEffectorPose = getEndEffectorPose(DefaultDH, Zero6)
    /\ matrices = forwardKinematicsChain(DefaultDH, Zero6)
    /\ reads = <<>>
    /\ last = [op |-> "mount", pending |-> <<>>, solved |-> 0]
    /\ events = 0
    /\ solves = 0

PlayerMounted == jointAngles = Zero6 /\ angleQueue = <<>> /\ frame = IdleFrame(Zero6, <<>>)

(***************************************************************************)
(* SpecIK: inverseKinematics run one loop pass at a time, on inputs drawn  *)
(* from IKSeeds x IKTargets.                                               *)
(***************************************************************************)
IKSeeds ==
    { Zero6,
      <<Deg(-180), 0, 0, 0, 0, 0>>,
      <<Deg(180), Deg(90), 0, 0, 0, Deg(-90)>>,
      <<Deg(270), 0, Deg(-540), 0, Deg(45), 0>>,
      <<Deg(30), Deg(-45), Deg(60), Deg(15), 0, Deg(720)>> }

IKTargets(config) ==
    { getEndEffectorPose(config, t) : t \in IKSeeds }
    \cup { compose(<<Mm(1000), 0, Mm(1000)>>, getEndEffectorPose(config, Zero6)),
           compose(<<Mm(3000), 0, 0>>, getEndEffectorPose(config, Zero6)) }

IKInit ==
    /\ \E seed \in IKSeeds : \E target \in IKTargets(DefaultDH) :
           ik = [pc |-> "loop", svc |-> DefaultDH, target |-> target, seed |-> seed,
                 newAngles |-> seed, iter |-> 0, fkEvals |-> 0, result |-> <<>>]
    /\ parse = IdleParse
    /\ flange = IdleFlange
    /\ PlayerMounted
    /\ AppMounted

\* `break` on convergence, else the updated angles and iter++
AfterIteration(call, it) ==
    IF it.converged
    THEN [call EXCEPT !.pc = "normalize", !.fkEvals = @ + 1]
    ELSE [call EXCEPT !.newAngles = it.next, !.iter = @ + 1, !.fkEvals = @ + 1]

\* one pass of the loop body
IKIterate ==
    /\ ik.pc = "loop"
    /\ LoopContinues(ik.iter)
    /\ ik' = AfterIteration(ik, IKIteration(ik.svc, ik.target, ik.newAngles))
    /\ UNCHANGED <<parse, flange, playerVars, appVars>>

\* the loop condition fails: the cap is reached without convergence
IKExhausted ==
    /\ ik.pc = "loop"
    /\ ~LoopContinues(ik.iter)
    /\ ik' = [ik EXCEPT !.pc = "normalize"]
    /\ UNCHANGED <<parse, flange, playerVars, appVars>>

\* return newAngles.map(normalize)
IKReturn ==
    /\ ik.pc = "normalize"
    /\ ik' = [ik EXCEPT !.pc = "done", !.result = Normalize(ik.newAngles)]
    /\ UNCHANGED <<parse, flange, playerVars, appVars>>

IKNext == IKIterate \/ IKExhausted \/ IKReturn

SpecIK == IKInit /\ [][IKNext]_vars

(***************************************************************************)
(* SpecParse: parseGlobalVars and parseTrajectory on texts of up to        *)
(* MaxLines lines taken from SampleLines.  Each sample line is written     *)
(* with what it is: the prefix it starts with after trimming (pre), whether *)
(* it holds both 'CARTPOS' and 'x :=' (cart), whether every value in it is *)
(* a number (wellFormed), and the pose its keys spell out (pose).          *)
(***************************************************************************)
MaxLines == 3

SampleLine(s, pre, cart, wellFormed, pose) ==
    [s |-> s, pre |-> pre, cart |-> cart, wellFormed |-> wellFormed, pose |-> pose]

SampleLines ==
    { SampleLine("world1 x := 100 y := -50", "world1", FALSE, TRUE,
                 PoseOf(Num(10000), Num(-5000), Num(0), Num(0), Num(0), Num(0))),
      SampleLine("  tool1 Z:=1.5 a := 90", "tool1", FALSE, TRUE,
                 PoseOf(Num(0), Num(0), Num(150), Num(9000), Num(0), Num(0))),
      SampleLine("world1 x := - y := 7", "world1", FALSE, FALSE,
                 PoseOf(NaN, Num(700), Num(0), Num(0), Num(0), Num(0))),
      SampleLine("tool1 b := .", "tool1", FALSE, FALSE,
                 PoseOf(Num(0), Num(0), Num(0), Num(0), NaN, Num(0))),
      SampleLine("cp1 CARTPOS x := 10 y := 20 z := 30", "", TRUE, TRUE,
                 PoseOf(Num(1000), Num(2000), Num(3000), Num(0), Num(0), Num(0))),
      SampleLine("cp2 CARTPOS c := -15 x := 5", "", TRUE, TRUE,
                 PoseOf(Num(500), Num(0), Num(0), Num(0), Num(0), Num(-1500))),
      SampleLine("cp3 cartpos x := 5", "", FALSE, TRUE,
                 PoseOf(Num(500), Num(0), Num(0), Num(0), Num(0), Num(0))),
      SampleLine("CARTPOS y := 3", "", FALSE, TRUE,
                 PoseOf(Num(0), Num(300), Num(0), Num(0), Num(0), Num(0))),
      SampleLine("; world1 and tool1", "", FALSE, TRUE, ZeroPose) }

Docs == UNION { [1..n -> SampleLines] : n \in 0..MaxLines }

\* the lines joined by '\n'
RECURSIVE TextOf(_)
TextOf(doc) ==
    IF doc = <<>> THEN ""
    ELSE IF Len(doc) = 1 THEN doc[1].s
    ELSE TextOf(SubSeq(doc, 1, Len(doc) - 1)) \o "\n" \o doc[Len(doc)].s

ParseInit ==
    /\ \E doc \in Docs :
           parse = [pc |-> "text", doc |-> doc, text |-> TextOf(doc), config |-> <<>>, points |-> <<>>]
    /\ ik = IdleIK
    /\ flange = IdleFlange
    /\ PlayerMounted
    /\ AppMounted

ParseGlobalVars ==
    /\ parse.pc = "text"
    /\ parse.config = <<>>
    /\ parse' = [parse EXCEPT !.config = <<parseGlobalVars(parse.text)>>]
    /\ UNCHANGED <<ik, flange, playerVars, appVars>>

ParseTrajectory ==
    /\ parse.pc = "text"
    /\ parse.points = <<>>
    /\ parse' = [parse EXCEPT !.points = <<parseTrajectory(parse.text)>>]
    /\ UNCHANGED <<ik, flange, playerVars, appVars>>

ParseNext == ParseGlobalVars \/ ParseTrajectory

SpecParse == ParseInit /\ [][ParseNext]_vars

(***************************************************************************)
(* SpecFlange: one call of calculateFlangeTarget, its three poses drawn    *)
(* from FlangePoses.                                                       *)
(***************************************************************************)
FlangePoses ==
    { ZeroPose,
      PoseOf(Num(Mm(100)), Num(0), Num(Mm(50)), Num(0), Num(0), Num(0)),
      PoseOf(Num(Mm(1000)), Num(Mm(-200)), Num(Mm(500)), Num(9000), Num(0), Num(0)),
      PoseOf(Num(0), Num(Mm(30)), Num(Mm(120)), Num(0), Num(9000), Num(18000)),
      PoseOf(Num(Mm(10)), Num(0), Num(Mm(-40)), Num(-9000), Num(0), Num(9000)) }

FlangeInit ==
    /\ \E point \in FlangePoses : \E worldOffset \in FlangePoses : \E toolOffset \in FlangePoses :
           flange = [pc |-> "call", point |-> point, worldOffset |-> worldOffset,
                     toolOffset |-> toolOffset, result |-> <<>>]
    /\ ik = IdleIK
    /\ parse = IdleParse
    /\ PlayerMounted
    /\ AppMounted

CalculateFlangeTarget ==
    /\ flange.pc = "call"
    /\ flange' = [flange EXCEPT !.pc = "done",
                                !.result = calculateFlangeTarget(flange.point, flange.worldOffset,
                                                                 flange.toolOffset)]
    /\ UNCHANGED <<ik, parse, playerVars, appVars>>

FlangeNext == CalculateFlangeTarget

SpecFlange == FlangeInit /\ [][FlangeNext]_vars

(***************************************************************************)
(* The useFrame callback of TrajectoryPlayer.                              *)
(***************************************************************************)
Sixtieth == FrameUnit \div 60      \* dt = 1/60 s

\* the record of a callback that found a queue
Ran(delta) ==
    [frame EXCEPT !.n = @ + 1, !.ran = TRUE, !.delta = delta, !.before = jointAngles,
                  !.target = angleQueue[1],
                  !.reached = reached(jointAngles, angleQueue[1]),
                  !.finished = Finished(angleQueue, jointAngles),
                  !.calls = @ + (IF Finished(angleQueue, jointAngles) THEN 1 ELSE 0),
                  !.steady = @ /\ delta = Sixtieth]

\* the early return written `{ onFinished(); return; }`
ReturnedFinished ==
    [frame EXCEPT !.ran = FALSE, !.before = jointAngles, !.target = <<>>, !.reached = FALSE,
                  !.finished = TRUE, !.calls = @ + 1]

\* the record of a callback that returned at once
Returned ==
    [frame EXCEPT !.ran = FALSE, !.before = jointAngles, !.target = <<>>, !.reached = FALSE,
                  !.finished = FALSE]

(***************************************************************************)
(* SpecPlayer: TrajectoryPlayer alone, from any of PlayerAngles with any   *)
(* queue of up to MaxQueue of PlayerTargets, frames of PlayerFrameTimes.   *)
(***************************************************************************)
MaxQueue == 2
MaxTicks == 7

PlayerAngles == { Zero6, <<5, 0, 0, 0, 0, 0>>, <<Deg(10), 0, 0, 0, 0, 0>> }
PlayerTargets ==
    { <<Deg(10), 0, 0, 0, 0, 0>>, <<Deg(1), 0, 0, 0, 0, 0>>, <<1, 0, 0, 0, 0, 0>>,
      <<Deg(3), Deg(-2), 0, 0, 0, 0>> }
PlayerQueues == UNION { [1..n -> PlayerTargets] : n \in 0..MaxQueue }
PlayerFrameTimes == { 0, Sixtieth \div 2, Sixtieth }

PlayerInit ==
    /\ \E angles \in PlayerAngles : \E queue \in PlayerQueues :
           /\ jointAngles = angles
           /\ angleQueue = queue
           /\ frame = IdleFrame(angles, queue)
    /\ ik = IdleIK
    /\ parse = IdleParse
    /\ flange = IdleFlange
    /\ AppMounted

\* useFrame((state, delta) => { ... }) with a queue
PlayerTick(delta) ==
    /\ angleQueue # <<>>
    /\ frame.n < MaxTicks
    /\ jointAngles' = nextAngles(jointAngles, angleQueue[1], delta)
    /\ angleQueue' = Shifted(angleQueue, jointAngles)
    /\ frame' = Ran(delta)
    /\ UNCHANGED <<ik, parse, flange, appVars>>

\* if (queue.length === 0) return
PlayerIdle ==
    /\ angleQueue = <<>>
    /\ frame' = Returned
    /\ UNCHANGED <<jointAngles, angleQueue, ik, parse, flange, appVars>>

PlayerNext == (\E delta \in PlayerFrameTimes : PlayerTick(delta)) \/ PlayerIdle

SpecPlayer == PlayerInit /\ [][PlayerNext]_vars

(***************************************************************************)
(* Spec: App.  Every handler runs to its end, followed by the render its   *)
(* state updates cause and that render's effects.                          *)
(***************************************************************************)
MaxEvents == 2
MaxSolves == 181
MaxFrames == 3

FrameTimes == { speed(GridStep) }      \* frames of 1/8 s: 15 degrees a frame
JogJoints == { 2 }
JogValues == { Deg(45) }
DhEdits == { <<"a", 2, Mm(300)>> }
IKTargetPositions == { <<Mm(1000), 0, Mm(1000)>> }

VarsFile == [name |-> "robot_globalvars.txt", content |-> "world1 x := 100\ntool1 z := 50"]
TrajFile ==
    [name |-> "commontest.txt",
     content |-> "; path\np1 CARTPOS x := 1000 y := 0 z := 1000\np2 CARTPOS x := 1100 y := 0 z := 1000 a := 90"]
FileLists == { <<VarsFile, TrajFile>>, <<TrajFile>> }

\* the render of App: line 99 runs in every render
Rendered(config, angles) == getEndEffectorPose(config, angles)

\* handleSolveIK(target)
HandleSolveIK(target) ==
    /\ events < MaxEvents
    /\ solves < MaxSolves
    /\ angleQueue' = setAngleQueue(setAngleQueue(angleQueue, <<>>),
                                   <<inverseKinematics(svc, compose(target, getEndEffectorPose(svc, jointAngles)),
                                                       jointAngles)>>)
    /\ endEffectorPose' = Rendered(svc, jointAngles)
    /\ last' = [op |-> "solveIK", pending |-> angleQueue, solved |-> 1]
    /\ events' = events + 1
    /\ solves' = solves + 1
    /\ UNCHANGED <<jointAngles, dhParams, globalConfig, importedTrajectory, svc, matrices, reads,
                   frame, ik, parse, flange>>

\* generateTrajectoryPoints(type)
GenerateTrajectoryPoints(type) ==
    /\ events < MaxEvents
    /\ solves + PathLength(type) <= MaxSolves
    /\ angleQueue' = setAngleQueue(setAngleQueue(angleQueue, <<>>),
                                   PathSolutions(svc, jointAngles, getEndEffectorPose(svc, jointAngles),
                                                 PathPoints(type, getEndEffectorPose(svc, jointAngles).p)))
    /\ importedTrajectory' = <<>>
    /\ endEffectorPose' = Rendered(svc, jointAngles)
    /\ last' = [op |-> "generate", pending |-> angleQueue, solved |-> PathLength(type)]
    /\ events' = events + 1
    /\ solves' = solves + PathLength(type)
    /\ UNCHANGED <<jointAngles, dhParams, globalConfig, svc, matrices, reads, frame, ik, parse, flange>>

\* ControlPanel's setJointAngles: (angles) => { setAngleQueue([]); setJointAngles(angles) }
SetJointAngles(angles) ==
    /\ events < MaxEvents
    /\ angleQueue' = setAngleQueue(angleQueue, <<>>)
    /\ jointAngles' = angles
    /\ endEffectorPose' = Rendered(svc, angles)
    /\ matrices' = forwardKinematicsChain(svc, angles)
    /\ last' = [op |-> "jog", pending |-> angleQueue, solved |-> 0]
    /\ events' = events + 1
    /\ UNCHANGED <<dhParams, globalConfig, importedTrajectory, svc, reads, frame, solves, ik, parse, flange>>

\* setDhParams(newConfig): the render (App's pose, RobotModel's memo, whose
\* dependency dhConfig changed) runs before the effect that hands the new
\* parameters to the service
SetDhParams(newConfig) ==
    /\ events < MaxEvents
    /\ dhParams' = newConfig
    /\ endEffectorPose' = Rendered(svc, jointAngles)
    /\ matrices' = forwardKinematicsChain(svc, jointAngles)
    /\ svc' = setDHConfig(newConfig)
    /\ last' = [op |-> "setDh", pending |-> angleQueue, solved |-> 0]
    /\ events' = events + 1
    /\ UNCHANGED <<jointAngles, angleQueue, globalConfig, importedTrajectory, reads, frame, solves,
                   ik, parse, flange>>

\* handleFilesLoaded(files): one FileReader per file; the closure holds
\* varsText, trajText, readCount and the jointAngles and globalConfig of the
\* render that created the handler
IsVars(file) == Includes(file.name, "_globalvars.txt")
IsTraj(file) == Includes(file.name, "commontest.txt")

\* the waypoints of the trajectory file among files (a FileList of FileLists
\* holds at most one)
Waypoints(files) ==
    IF \E f \in 1..Len(files) : IsTraj(files[f])
    THEN Len(parseTrajectory(files[CHOOSE f \in 1..Len(files) : IsTraj(files[f])].content))
    ELSE 0

HandleFilesLoaded(files) ==
    /\ events < MaxEvents
    /\ solves + Waypoints(files) <= MaxSolves
    /\ reads' = Append(reads, [files |-> files, unread |-> 1..Len(files), varsText |-> "",
                               trajText |-> "", readCount |-> 0,
                               jointAngles |-> jointAngles, globalConfig |-> globalConfig])
    /\ last' = [op |-> "filesLoaded", pending |-> angleQueue, solved |-> 0]
    /\ events' = events + 1
    /\ solves' = solves + Waypoints(files)
    /\ UNCHANGED <<jointAngles, angleQueue, dhParams, globalConfig, importedTrajectory, svc,
                   endEffectorPose, matrices, frame, ik, parse, flange>>

\* reader.onload for file f of a call: the closure after the three assignments
Loaded(read, f) ==
    [read EXCEPT !.unread = @ \ {f},
                 !.varsText = IF IsVars(read.files[f]) THEN read.files[f].content ELSE @,
                 !.trajText = IF IsTraj(read.files[f]) THEN read.files[f].content ELSE @,
                 !.readCount = @ + 1]

Without(seq, k) == SubSeq(seq, 1, k - 1) \o SubSeq(seq, k + 1, Len(seq))

\* processFiles: config
ConfigOf(read) ==
    IF read.varsText # "" THEN parseGlobalVars(read.varsText)
    ELSE IF read.globalConfig # <<>> THEN read.globalConfig[1]
    ELSE ZeroConfig

ProcessFiles(read, targets) ==
    /\ globalConfig' = IF read.varsText # "" THEN <<ConfigOf(read)>> ELSE globalConfig
    /\ IF read.trajText # ""
       THEN /\ importedTrajectory' = BaseTargets(targets)
            /\ angleQueue' = setAngleQueue(angleQueue, ImportSolutions(svc, read.jointAngles, targets))
            /\ last' = [op |-> "import", pending |-> angleQueue, solved |-> Len(targets)]
       ELSE /\ UNCHANGED <<importedTrajectory, angleQueue>>
            /\ last' = [op |-> "onload", pending |-> angleQueue, solved |-> 0]
    /\ endEffectorPose' = IF read.varsText # "" \/ read.trajText # ""
                          THEN Rendered(svc, jointAngles) ELSE endEffectorPose

OnLoadOf(k, read) ==
    /\ IF read.readCount = Len(read.files)
       THEN /\ reads' = Without(reads, k)
            /\ ProcessFiles(read, FlangeTargets(parseTrajectory(read.trajText), ConfigOf(read)))
       ELSE /\ reads' = [reads EXCEPT ![k] = read]
            /\ last' = [op |-> "onload", pending |-> angleQueue, solved |-> 0]
            /\ UNCHANGED <<globalConfig, importedTrajectory, angleQueue, endEffectorPose>>
    /\ UNCHANGED <<jointAngles, dhParams, svc, matrices, frame, events, solves, ik, parse, flange>>

OnLoad(k, f) == f \in reads[k].unread /\ OnLoadOf(k, Loaded(reads[k], f))

\* the useFrame callback with a queue: setAngles(nextAngles) re-renders App
\* and RobotModel (jointAngles is a new array)
Tick(delta) ==
    /\ angleQueue # <<>>
    /\ frame.n < MaxFrames
    /\ jointAngles' = nextAngles(jointAngles, angleQueue[1], delta)
    /\ angleQueue' = Shifted(angleQueue, jointAngles)
    /\ frame' = Ran(delta)
    /\ endEffectorPose' = Rendered(svc, jointAngles')
    /\ matrices' = forwardKinematicsChain(svc, jointAngles')
    /\ last' = [op |-> "tick", pending |-> angleQueue, solved |-> 0]
    /\ UNCHANGED <<dhParams, globalConfig, importedTrajectory, svc, reads, events, solves, ik, parse, flange>>

\* the useFrame callback without a queue
IdleTick ==
    /\ angleQueue = <<>>
    /\ frame' = Returned
    /\ UNCHANGED <<jointAngles, angleQueue, appVars, ik, parse, flange>>

Init ==
    /\ PlayerMounted
    /\ AppMounted
    /\ ik = IdleIK
    /\ parse = IdleParse
    /\ flange = IdleFlange

Next ==
    \/ \E delta \in FrameTimes : Tick(delta)
    \/ IdleTick
    \/ \E target \in IKTargetPositions : HandleSolveIK(target)
    \/ \E type \in PathTypes : GenerateTrajectoryPoints(type)
    \/ \E index \in JogJoints : \E value \in JogValues :
           SetJointAngles(handleSliderChange(jointAngles, index, value))
    \/ \E edit \in DhEdits : SetDhParams(updateDH(dhParams, edit[1], edit[2], edit[3]))
    \/ \E files \in FileLists : HandleFilesLoaded(files)
    \/ \E k \in 1..Len(reads) : \E f \in 1..Len(reads[k].files) : OnLoad(k, f)

Spec == Init /\ [][Next]_vars

(***************************************************************************)
(* SpecImport: App with the file input alone: up to MaxEvents selections   *)
(* from ImportFileLists, their readers' onload callbacks in any order.     *)
(***************************************************************************)
OtherVarsFile == [name |-> "cell_globalvars.txt", content |-> "world1 x := 200 y := 50\ntool1 x := 30"]
EmptyVarsFile == [name |-> "empty_globalvars.txt", content |-> ""]
ImportFileLists == { <<VarsFile>>, <<OtherVarsFile, TrajFile>>, <<EmptyVarsFile, TrajFile>> }

ImportNext ==
    \/ \E files \in ImportFileLists : HandleFilesLoaded(files)
    \/ \E k \in 1..Len(reads) : \E f \in 1..Len(reads[k].files) : OnLoad(k, f)

SpecImport == Init /\ [][ImportNext]_vars

(***************************************************************************)
(* Properties of TrajectoryPlayer (SpecPlayer).                            *)
(***************************************************************************)
WithinBand(angles, target) == \A i \in 1..6 : Abs(target[i] - angles[i]) <= Band

T10 == <<Deg(10), 0, 0, 0, 0, 0>>

\* the playback of C1: from [0,0,0,0,0,0] with the queue [[10,0,0,0,0,0]],
\* every frame so far with dt = 1/60
C1_Playback == frame.start = [angles |-> Zero6, queue |-> <<T10>>] /\ frame.steady

\* 10 degrees at 2 degrees a frame (120 degrees a second for 1/60 s), and one
\* more frame that finds the target reached
C1_Ticks == Deg(10) \div Deg(2) + 1

\* C1: playback convergence.  From [0,0,0,0,0,0] with the single target
\* [10,0,0,0,0,0] and dt = 1/60, the C1_Ticks-th tick (the 6th) reports
\* completion; from then on every joint is within 0.1 degree of the target,
\* the queue is empty and completion has been reported exactly once; before
\* it the target is still queued and nothing has been reported.
C1_PlaybackConverges ==
    C1_Playback =>
        /\ frame.n < C1_Ticks => angleQueue = <<T10>> /\ frame.calls = 0 /\ ~frame.finished
        /\ frame.n = C1_Ticks /\ frame.ran => frame.finished
        /\ frame.n >= C1_Ticks => angleQueue = <<>> /\ WithinBand(jointAngles, T10) /\ frame.calls = 1

\* the tick of C1 that reports completion
C1_Finished ==
    /\ C1_Playback
    /\ frame.n = C1_Ticks /\ frame.ran /\ frame.finished
    /\ angleQueue = <<>> /\ WithinBand(jointAngles, T10)

\* C4: in a tick with a queue, if all six joints are within 0.1 degree of
\* the front target after the tick's step, the tick pops the front entry
\* (and reports completion if that empties the queue).
C4_PopsWhenWithinBandAfterStep ==
    frame.ran /\ WithinBand(jointAngles, frame.target) =>
        /\ frame.reached
        /\ angleQueue = <<>> => frame.finished

\* 120 degrees a second for delta / FrameUnit seconds, in tenths of a degree
C11_RateLimit(delta) == (120 * Deg(1) * delta) \div FrameUnit

C11_JointStep(before, target, after, limit) ==
    IF Abs(target - before) > Band
    THEN /\ Abs(after - before) = Min(Abs(target - before), limit)
         /\ Abs(target - after) = Abs(target - before) - Abs(after - before)
         /\ Sign(target - after) \in {0, Sign(target - before)}
    ELSE after = target

\* C11: rate bound without overshoot.  In a tick with a queue, a joint more
\* than 0.1 degree from the front target moves by exactly
\* min(|diff|, 120 * dt), toward the target (its distance shrinks by what it
\* moved) and not past it; a joint within 0.1 degree is set to the target.
C11_RateBoundNoOvershoot ==
    frame.ran =>
        \A i \in 1..6 :
            C11_JointStep(frame.before[i], frame.target[i], jointAngles[i], C11_RateLimit(frame.delta))

\* a tick in which joint 1 moves a full step of 2 degrees toward 3 degrees
\* and joint 2 moves the 2 degrees that are left to -2 degrees
C11_Stepped ==
    /\ frame.ran /\ frame.delta = Sixtieth
    /\ frame.before = Zero6
    /\ frame.target = <<Deg(3), Deg(-2), 0, 0, 0, 0>>
    /\ jointAngles = <<Deg(2), Deg(-2), 0, 0, 0, 0>>

\* C13: completion is signalled exactly by the tick that pops the last entry.
\* The callback that has just run signalled completion if and only if it
\* found a queue and left it empty; over a batch of one or more targets
\* onFinished has been called once when the queue has drained and not at all
\* while entries remain, and a callback that found the queue empty adds none.
C13_FinishedIffLastPopped ==
    /\ frame.finished <=> (frame.ran /\ angleQueue = <<>>)
    /\ frame.calls = (IF frame.start.queue # <<>> /\ angleQueue = <<>> THEN 1 ELSE 0)

\* a batch of two targets has drained and its last tick signalled completion
C13_BatchOfTwoFinished ==
    /\ Len(frame.start.queue) = 2
    /\ frame.start.queue[1] # frame.start.queue[2]
    /\ angleQueue = <<>>
    /\ frame.ran /\ frame.finished /\ frame.calls = 1

\* C20: a popped target is written exactly, and pops are in order, one a tick.
\* What is left of the queue is always a tail of the batch; a frame callback
\* leaves the queue as it was or removes its front entry alone, and a
\* callback that removes the front entry has written that entry, all six
\* joints of it, as the joint angles.
C20_PoppedTargetWrittenExactly ==
    /\ [](\E k \in 0..Len(frame.start.queue) :
             angleQueue = SubSeq(frame.start.queue, k + 1, Len(frame.start.queue)))
    /\ [][frame'.n = frame.n + 1 =>
             /\ angleQueue' \in {angleQueue, Tail(angleQueue)}
             /\ angleQueue' # angleQueue => jointAngles' = angleQueue[1]]_vars

\* two different targets popped one after the other, the second standing as
\* the joint angles
C20_TwoPoppedInOrder ==
    /\ Len(frame.start.queue) = 2
    /\ frame.start.queue[1] # frame.start.queue[2]
    /\ frame.start.angles \notin {frame.start.queue[1], frame.start.queue[2]}
    /\ angleQueue = <<>>
    /\ frame.ran /\ frame.target = frame.start.queue[2]
    /\ jointAngles = frame.start.queue[2]

(***************************************************************************)
(* Properties of inverseKinematics (SpecIK).                               *)
(***************************************************************************)
\* C3: every angle inverseKinematics returns is greater than -180 and at
\* most 180 degrees.
C3_OutputsInHalfOpenRange ==
    ik.pc = "done" => \A i \in 1..6 : ik.result[i] > -HalfTurn /\ ik.result[i] <= HalfTurn

\* C15: the normalization of the solver's outputs is idempotent.  Normalizing
\* the normalized estimate gives the normalized estimate again, so a returned
\* vector passed through normalization once more comes back unchanged.
C15_NormalizeIdempotent ==
    /\ Normalize(Normalize(ik.newAngles)) = Normalize(ik.newAngles)
    /\ ik.pc = "done" => Normalize(ik.result) = ik.result

\* a call returned after iterating, and normalization changed its estimate
C15_ReturnedNormalized ==
    /\ ik.pc = "done" /\ ik.iter > 0
    /\ ik.result # ik.newAngles
    /\ \E i \in 1..6 : Abs(ik.newAngles[i]) > FullTurn

\* the axis forward kinematics turns the tool about when joint j (0..5) is
\* commanded a quarter turn further: the axis of the rotation that carries
\* the tool frame of `angles` to the tool frame of the turned angles, read
\* off the antisymmetric part of that rotation (sin 90 = 1), scaled by One
C19_Turned(angles, j) == [angles EXCEPT ![j + 1] = @ + Deg(90)]
C19_AxisOf(rot) ==
    <<(rot[3][2] - rot[2][3]) \div 2, (rot[1][3] - rot[3][1]) \div 2, (rot[2][1] - rot[1][2]) \div 2>>
C19_KinematicAxis(config, angles, j) ==
    C19_AxisOf(Multiply(getEndEffectorPose(config, C19_Turned(angles, j)),
                        Invert(getEndEffectorPose(config, angles))).r)

\* two unit vectors scaled by One within about 18 degrees of each other
C19_SameDirection(u, v) == Dot(u, v) * 100 >= 95 * One * One

\* C19: the solver's joint axes are forward kinematics' joint axes.  In any
\* pass of the loop, for every joint j in 0..5, the axis the solver uses
\* (local Z of chain frame j, local X for j = 3) has the direction of the
\* axis about which forward kinematics rotates the tool when joint j's
\* commanded angle changes.
C19_SolverAxisIsKinematicAxis ==
    ik.pc = "loop" =>
        \A j \in 0..5 :
            C19_SameDirection(JointAxis(forwardKinematicsChain(ik.svc, ik.newAngles), j),
                              C19_KinematicAxis(ik.svc, ik.newAngles, j))

\* C8: inverseKinematics terminates.  The loop runs at most maxIterations
\* passes with one forward-kinematics evaluation each (a call still in the
\* loop after iter passes has made iter evaluations), and the call returns
\* six angles: its current estimate, normalized, whether or not the loop
\* converged.
C8_Terminates ==
    /\ ik.pc \in {"loop", "normalize", "done"}
    /\ ik.iter <= maxIterations
    /\ ik.fkEvals <= maxIterations
    /\ ik.pc = "loop" => ik.fkEvals = ik.iter
    /\ ik.pc = "done" => Len(ik.result) = 6 /\ ik.result = Normalize(ik.newAngles)

\* a call that returned at the cap without converging
C8_ReturnedAtCap == ik.pc = "done" /\ ik.iter = maxIterations /\ ik.fkEvals = maxIterations

\* the call of C9: the target is the pose of the seed
C9_RoundTrip == ik.target = getEndEffectorPose(ik.svc, ik.seed)

\* C9: FK/IK round trip.  Solving for forwardKinematics(T) from the seed T
\* converges at the first check: no pass updates a joint, there is one
\* forward-kinematics evaluation, and the pose of the returned angles is
\* within 0.1 mm and 0.001 rad of the target.
C9_RoundTripConverges ==
    C9_RoundTrip =>
        /\ ik.iter = 0 /\ ik.newAngles = ik.seed
        /\ ik.pc = "done" => /\ ik.fkEvals = 1
                             /\ Converged(IKError(ik.svc, ik.target, ik.result))

\* a round trip from a seed outside the normalized range
C9_RoundTripReturned ==
    /\ C9_RoundTrip
    /\ ik.pc = "done"
    /\ ik.seed = <<Deg(270), 0, Deg(-540), 0, Deg(45), 0>>
    /\ ik.result # ik.seed

(***************************************************************************)
(* Properties of ParserService (SpecParse).                                *)
(***************************************************************************)
Keys == {"x", "y", "z", "a", "b", "c"}
Finite(pose) == \A key \in Keys : pose[key].kind = "number"

\* C5: every field of every pose that parseGlobalVars and parseTrajectory
\* produce is a finite number (a malformed value counts as 0).
C5_FieldsFinite ==
    /\ parse.pc = "text" /\ parse.config # <<>> =>
           Finite(parse.config[1].world) /\ Finite(parse.config[1].tool)
    /\ parse.pc = "text" /\ parse.points # <<>> =>
           \A n \in 1..Len(parse.points[1]) : Finite(parse.points[1][n])

\* the lines of doc that start with prefix, after trimming
Prefixed(doc, prefix) == { n \in 1..Len(doc) : doc[n].pre = prefix }
LastPrefixed(doc, prefix) == CHOOSE n \in Prefixed(doc, prefix) : \A m \in Prefixed(doc, prefix) : m <= n

\* pose holds every number that line spells out, and 0 for the keys it lacks
Spells(line, pose) == \A key \in Keys : line.pose[key].kind = "number" => pose[key] = line.pose[key]

C6_PoseFor(doc, prefix, pose) ==
    IF Prefixed(doc, prefix) = {} THEN pose = ZeroPose
    ELSE Spells(doc[LastPrefixed(doc, prefix)], pose)

\* C6: parseGlobalVars defaulting.  Lines starting with neither 'world1' nor
\* 'tool1' have no effect; a pose no line matches is all-zero; the pose of a
\* matched line (the last one, if several match) takes the value of every
\* key present and 0 for every key absent.
C6_GlobalVarsDefaulting ==
    parse.pc = "text" /\ parse.config # <<>> =>
        /\ C6_PoseFor(parse.doc, "world1", parse.config[1].world)
        /\ C6_PoseFor(parse.doc, "tool1", parse.config[1].tool)

\* a text with a comment line, a world1 line and an indented tool1 line
C6_Parsed ==
    /\ parse.pc = "text" /\ parse.config # <<>>
    /\ Len(parse.doc) = 3
    /\ parse.doc[1].s = "; world1 and tool1"
    /\ parse.doc[2].s = "world1 x := 100 y := -50"
    /\ parse.doc[3].s = "  tool1 Z:=1.5 a := 90"
    /\ parse.config[1].world = PoseOf(Num(10000), Num(-5000), Num(0), Num(0), Num(0), Num(0))
    /\ parse.config[1].tool = PoseOf(Num(0), Num(0), Num(150), Num(9000), Num(0), Num(0))

IsCart(line) == line.cart

\* C7: parseTrajectory returns one waypoint per line that contains both
\* 'CARTPOS' and 'x :=', in the order of the lines, and none for any other
\* line (the empty sequence when no line matches).
C7_OneWaypointPerCartposLine ==
    parse.pc = "text" /\ parse.points # <<>> =>
        /\ Len(parse.points[1]) = Len(SelectSeq(parse.doc, IsCart))
        /\ \A n \in 1..Len(parse.points[1]) : parse.points[1][n] = SelectSeq(parse.doc, IsCart)[n].pose

\* two waypoint lines around a line that has 'CARTPOS' but no 'x :='
C7_Parsed ==
    /\ parse.pc = "text" /\ parse.points # <<>>
    /\ Len(parse.doc) = 3
    /\ parse.doc[1].s = "cp2 CARTPOS c := -15 x := 5"
    /\ parse.doc[2].s = "CARTPOS y := 3"
    /\ parse.doc[3].s = "cp1 CARTPOS x := 10 y := 20 z := 30"
    /\ parse.points[1] = <<PoseOf(Num(500), Num(0), Num(0), Num(0), Num(0), Num(-1500)),
                           PoseOf(Num(1000), Num(2000), Num(3000), Num(0), Num(0), Num(0))>>

(***************************************************************************)
(* Properties of calculateFlangeTarget (SpecFlange)                        *)
(***************************************************************************)
Unrotated(pose) == pose.a.v = 0 /\ pose.b.v = 0 /\ pose.c.v = 0

\* world + waypoint - tool, componentwise
C17_Componentwise ==
    <<flange.worldOffset.x.v + flange.point.x.v - flange.toolOffset.x.v,
      flange.worldOffset.y.v + flange.point.y.v - flange.toolOffset.y.v,
      flange.worldOffset.z.v + flange.point.z.v - flange.toolOffset.z.v>>

C17_TrueInverse ==
    /\ Multiply(flange.result.matrix, poseToMatrix(flange.toolOffset))
           = Multiply(poseToMatrix(flange.worldOffset), poseToMatrix(flange.point))
    /\ flange.result.position = flange.result.matrix.p
    /\ (flange.worldOffset = ZeroPose /\ flange.toolOffset = ZeroPose)
           => flange.result.matrix = poseToMatrix(flange.point)

\* C17: calculateFlangeTarget returns World * Waypoint * Tool^-1 with a true
\* inverse.  The returned transform times the tool transform is the world
\* transform times the waypoint's; with zero world and tool offsets it is the
\* waypoint's own transform; and when the waypoint and both offsets are all
\* without rotation, the flange position is world + waypoint - tool
\* componentwise.
C17_FlangeIsWorldPointToolInverse ==
    flange.pc = "done" =>
        /\ C17_TrueInverse
        /\ (Unrotated(flange.worldOffset) /\ Unrotated(flange.toolOffset) /\ Unrotated(flange.point))
               => flange.result.position = C17_Componentwise

\* a call returned for a rotated waypoint, a moved world and a rotated,
\* displaced tool
C17_ReturnedForRotatedTool ==
    /\ flange.pc = "done"
    /\ ~Unrotated(flange.toolOffset) /\ flange.toolOffset.x.v # 0
    /\ ~Unrotated(flange.point)
    /\ flange.worldOffset # ZeroPose
    /\ flange.result.position # C17_Componentwise

\* C17 as stated: the componentwise position is claimed whenever the two
\* offsets are without rotation, whatever the rotation of the waypoint.
C17_ComponentwiseForUnrotatedOffsets ==
    flange.pc = "done" =>
        /\ C17_TrueInverse
        /\ (Unrotated(flange.worldOffset) /\ Unrotated(flange.toolOffset))
               => flange.result.position = C17_Componentwise

(***************************************************************************)
(* Properties of App (Spec).                                               *)
(***************************************************************************)
\* C2: after the DH parameters are edited, the end-effector pose and the
\* frame chain on display are those of the new parameters.
C2_DisplayUsesNewParameters ==
    last.op = "setDh" =>
        /\ endEffectorPose = getEndEffectorPose(dhParams, jointAngles)
        /\ matrices = forwardKinematicsChain(dhParams, jointAngles)

\* C14: the chain has exactly 8 frames.  Whatever the joint angles and the DH
\* parameters, the chain forward kinematics returned holds 8 frames, the
\* last of them the tool frame: the frame of stage 6 moved 386.63 mm along
\* its z axis and then -124 mm along its x axis.
C14_ChainHasEightFrames ==
    /\ Len(matrices) = 8
    /\ matrices[8] = Multiply(Multiply(matrices[7], makeTranslation(0, 0, Mm(386) + 63)),
                              makeTranslation(Mm(-124), 0, 0))

\* a chain computed for moved joints and edited DH parameters
C14_ChainOfMovedRobot ==
    /\ jointAngles # Zero6
    /\ dhParams # getDHConfig(DefaultDH)
    /\ Len(matrices) = 8
    /\ matrices[8] # forwardKinematicsChain(DefaultDH, Zero6)[8]

\* C12: a tick with an empty queue is a no-op.  A frame callback that finds
\* the queue empty leaves the joint angles and the queue as they are and
\* signals no completion; so once a jog has cleared the queue, ticks leave
\* the joint angles alone until a handler queues new targets.
C12_EmptyTickIsNoOp ==
    [][angleQueue = <<>> /\ frame' # frame =>
           /\ jointAngles' = jointAngles
           /\ angleQueue' = <<>>
           /\ ~frame'.ran /\ ~frame'.finished
           /\ frame'.calls = frame.calls /\ frame'.n = frame.n]_vars

\* a jog cancelled a pending playback and a frame callback has run since
C12_IdleAfterCancel ==
    /\ last.op = "jog" /\ last.pending # <<>>
    /\ angleQueue = <<>>
    /\ ~frame.ran /\ frame.before = jointAngles
    /\ jointAngles[2] = Deg(45)

C18_Count(type) ==
    CASE type = "line" -> 61 [] type = "s-curve" -> 121 [] type = "spiral" -> 181

\* the target transforms of a generated path, from the displayed pose
C18_PathTargets(type) ==
    [n \in 1..C18_Count(type) |->
        compose(PathPoints(type, getEndEffectorPose(svc, jointAngles).p)[n],
                getEndEffectorPose(svc, jointAngles))]

\* the target transforms of the trajectory file's waypoints
C18_FileTargets(config) ==
    [n \in 1..Len(parseTrajectory(TrajFile.content)) |->
        FlangeTargets(parseTrajectory(TrajFile.content), config)[n].matrix]

\* the queue holds one solution per target, the first seeded with the
\* current joint angles and each later one with its predecessor
C18_SeedChained(targets) ==
    /\ Len(angleQueue) = Len(targets)
    /\ \A k \in 1..Len(targets) :
           angleQueue[k] = inverseKinematics(svc, targets[k],
                                             IF k = 1 THEN jointAngles ELSE angleQueue[k - 1])

\* C18: one solution per waypoint, seed-chained from the current angles.
\* Right after a path generator or a file import has queued its solutions,
\* the queue holds one solution per waypoint in waypoint order (61, 121 or
\* 181 for a generated path, one per parsed waypoint for a file), the first
\* solved from the current joint angles and the k-th from the (k-1)-th
\* solution.
C18_OneSolutionPerWaypointSeeded ==
    /\ last.op = "generate" =>
           \E type \in PathTypes :
               Len(angleQueue) = C18_Count(type) /\ C18_SeedChained(C18_PathTargets(type))
    /\ last.op = "import" =>
           \E config \in {ZeroConfig, parseGlobalVars(VarsFile.content)} :
               C18_SeedChained(C18_FileTargets(config))

Producers == {"solveIK", "generate", "import"}
IsPrefix(s, t) == Len(s) <= Len(t) /\ SubSeq(t, 1, Len(s)) = s

C21_TargetsOf(files) ==
    BaseTargets(FlangeTargets(
        parseTrajectory(files[CHOOSE f \in 1..Len(files) : IsTraj(files[f])].content),
        parseGlobalVars(files[CHOOSE f \in 1..Len(files) : IsVars(files[f])].content)))

C21_Both(files) ==
    /\ \E f \in 1..Len(files) : IsTraj(files[f])
    /\ \E f \in 1..Len(files) : IsVars(files[f])

\* a callback of a selection with files still to read: nothing is processed
C21_ReadOnly ==
    /\ \E k \in 1..Len(reads) :
           /\ reads'[k].unread # {}
           /\ reads'[k].unread # reads[k].unread
           /\ reads'[k].unread \subseteq reads[k].unread
    /\ UNCHANGED <<angleQueue, importedTrajectory, globalConfig>>

\* the callback of the last file of selection k: the selection is processed
C21_Processed(k) ==
    /\ reads' = Without(reads, k)
    /\ Cardinality(reads[k].unread) = 1
    /\ C21_Both(reads[k].files) =>
           /\ importedTrajectory' = C21_TargetsOf(reads[k].files)
           /\ Len(angleQueue') = Len(importedTrajectory')

\* C21: file import under asynchronous reads.  In whatever order the onload
\* callbacks of a selection run, a selection is processed by the callback of
\* its last file and by no other, so once and after every file is read; and
\* a selection holding a global-vars file and a trajectory file leaves the
\* flange targets computed with the offsets of that global-vars file.
C21_ProcessedOnceWithOwnOffsets ==
    /\ [](\A k \in 1..Len(reads) : reads[k].unread # {})
    /\ [][(reads' # reads /\ Len(reads') <= Len(reads)) =>
             IF Len(reads') = Len(reads) THEN C21_ReadOnly
             ELSE \E k \in 1..Len(reads) : C21_Processed(k)]_vars

=============================================================================
